---- MODULE Spec2Model ----
(***************************************************************************)
(* WSDC Debate Assistant (src/app.py): a Streamlit script that configures  *)
(* a Gemini model handle, loads a cached knowledge file, and on a button   *)
(* press builds a prompt and sends it with model.generate_content.         *)
(*                                                                         *)
(* Python strings are sequences of tokens: a user-supplied character is a  *)
(* one-character token, a fragment of a prompt template is one long token. *)
(* A Python value that may be None is a set: {} is None, {s} is the        *)
(* string s.                                                               *)
(***************************************************************************)
EXTENDS Integers, Sequences, FiniteSets, TLC

VARIABLES
    cache,                \* st.cache_data entry of load_knowledge_base()
    loads,                \* load_knowledge_base() calls since the cache was last empty
    reads,                \* open() calls on the file since the cache was last empty
    model,                \* module global `model`
    distilled_knowledge,  \* module global `distilled_knowledge`
    CURRENT_MOTION,       \* st.text_input value
    side,                 \* st.selectbox value
    speaker_role,         \* st.selectbox value
    opponent_argument,    \* st.text_area value
    clicked,              \* the button whose press started the last script run
    last,                 \* the entry point that ran last
    args,                 \* the arguments of the last direct function call
    ret,                  \* what the last direct function call returned or raised
    calls,                \* model.generate_content requests of the last run, in order
    output                \* st.* elements shown by the last run, in order

vars == <<cache, loads, reads, model, distilled_knowledge, CURRENT_MOTION,
          side, speaker_role, opponent_argument, clicked, last, args, ret, calls,
          output>>

----------------------------------------------------------------------------
(* Bounds *)

\* longest text typed into a text widget
MaxLen == 1

\* most load_knowledge_base() calls followed within one cache lifetime
MaxLoads == 2

----------------------------------------------------------------------------
(* Python values *)

None == {}

Some(s) == {s}

TextOf(v) == CHOOSE s \in v : TRUE

\* bool(v) for v a str or None
Truthy(v) == \E s \in v : Len(s) > 0

\* str(v) as an f-string formats it
FormatValue(v) == IF v = None THEN <<"None">> ELSE TextOf(v)

StringsOver(alphabet) ==
    UNION {[1..n -> alphabet] : n \in 0..MaxLen}

IsSpace(c) == c = " "

RECURSIVE LStrip(_)
LStrip(s) == IF s # <<>> /\ IsSpace(Head(s)) THEN LStrip(Tail(s)) ELSE s

RECURSIVE RStrip(_)
RStrip(s) ==
    IF s # <<>> /\ IsSpace(s[Len(s)]) THEN RStrip(SubSeq(s, 1, Len(s) - 1)) ELSE s

\* variant: the handlers test the text as typed, without strip()
StripNothing(s) == s

\* str.strip()
Strip(s) == RStrip(LStrip(s))

UpperCase == <<"A", "B", "C", "D", "E", "F", "G", "H", "I", "J", "K", "L", "M",
               "N", "O", "P", "Q", "R", "S", "T", "U", "V", "W", "X", "Y", "Z">>

LowerCase == <<"a", "b", "c", "d", "e", "f", "g", "h", "i", "j", "k", "l", "m",
               "n", "o", "p", "q", "r", "s", "t", "u", "v", "w", "x", "y", "z">>

\* the lower-case form of each upper-case letter
LowerOf == [c \in {UpperCase[i] : i \in 1..Len(UpperCase)} |->
               LowerCase[CHOOSE i \in 1..Len(UpperCase) : UpperCase[i] = c]]

LowerChar(c) == IF c \in DOMAIN LowerOf THEN LowerOf[c] ELSE c

\* str.lower()
Lower(s) == [i \in 1..Len(s) |-> LowerChar(s[i])]

RECURSIVE ReplaceBullet(_)
ReplaceBullet(text) ==
    IF text = <<>> THEN <<>>
    ELSE (IF Head(text) = "BULLET" THEN <<" ", " ", "*">> ELSE <<Head(text)>>)
         \o ReplaceBullet(Tail(text))

\* to_markdown
to_markdown(text) == ReplaceBullet(text)

----------------------------------------------------------------------------
(* String literals of the source *)

lit_1st_proposition ==
    <<"1", "s", "t", " ", "p", "r", "o", "p", "o", "s", "i", "t", "i", "o", "n">>

lit_2nd_opposition ==
    <<"2", "n", "d", " ", "o", "p", "p", "o", "s", "i", "t", "i", "o", "n">>

lit_3rd_speaker == <<"3", "r", "d", " ", "s", "p", "e", "a", "k", "e", "r">>

lit_proposition == <<"p", "r", "o", "p", "o", "s", "i", "t", "i", "o", "n">>

lit_opposition == <<"o", "p", "p", "o", "s", "i", "t", "i", "o", "n">>

Role1stProposition ==
    <<"1", "s", "t", " ", "P", "r", "o", "p", "o", "s", "i", "t", "i", "o", "n">>

Role2ndOpposition ==
    <<"2", "n", "d", " ", "O", "p", "p", "o", "s", "i", "t", "i", "o", "n">>

Role3rdSpeaker == <<"3", "r", "d", " ", "S", "p", "e", "a", "k", "e", "r">>

SideProposition == <<"P", "r", "o", "p", "o", "s", "i", "t", "i", "o", "n">>

SideOpposition == <<"O", "p", "p", "o", "s", "i", "t", "i", "o", "n">>

RoleOptions == {Role1stProposition, Role2ndOpposition, Role3rdSpeaker}

SideOptions == {SideProposition, SideOpposition}

INSTR_1ST_PROP == <<"As 1st Prop, you set up the debate. Your speech needs a clear intro, definitions, team line, speaker split, and then you must fully develop the first argument(s).">>

INSTR_2ND_OPP == <<"As 2nd Opp, your job is to clash. Start with direct rebuttal, then introduce your team's remaining substantive arguments.">>

INSTR_3RD_SPEAKER == <<"As 3rd Speaker, your role is to crystalize the debate. Identify the key clash points and explain why your team won them. No new arguments.">>

PERSONA_PROP == <<"You are an elite WSDC Head Coach known for your no-nonsense, direct, and efficient style. You create powerfully simple cases.">>

INSTR_SIDE_PROP == <<"**STRATEGIC GOAL FOR PROPOSITION:** Build a compelling, principled case FOR the motion.">>

PERSONA_OPP == <<"You are an elite WSDC Head Coach known for your sharp, concise, and devastatingly clear Opposition strategies.">>

INSTR_SIDE_OPP == <<"**CRITICAL INSTRUCTIONS FOR OPPOSITION:** Dismantle the philosophy behind the motion using first principles. Do NOT generate arguments that sound like weak proposition points.">>

MSG_KEY_MISSING == <<"GEMINI_API_KEY not found in Streamlit secrets. Please add it.">>

MSG_CONFIGURE_FAILED == <<"Error configuring Gemini API: {e}">>

MSG_KB_LOADED == <<"Distilled knowledge loaded successfully.">>

MSG_KB_NOT_FOUND == <<"ERROR: {file_path} not found! Please upload it.">>

MSG_KB_LOAD_ERROR == <<"Error loading knowledge base: {e}">>

MSG_KB_OR_MODEL == <<"Knowledge base not loaded or model not initialized.">>

MSG_SPEECH_FAILED == <<"Error generating master speech: {e}">>

MSG_CASE_FAILED == <<"Error generating crisp case: {e}">>

MSG_REBUTTALS_FAILED == <<"Error generating rebuttals: {e}">>

MSG_ENTER_MOTION == <<"Please enter a debate motion.">>

MSG_ENTER_ARGUMENT == <<"Please enter an opponent's argument to rebut.">>

MSG_API_NOT_CONFIGURED == <<"Gemini API not configured. Please check your API key in Streamlit secrets.">>

MSG_KB_NOT_LOADED == <<"Knowledge base not loaded. Please ensure 'distilled_knowledge.txt' is in the same directory.">>

Element(kind, body) == [kind |-> kind, body |-> body]

Request(fn, prompt) == [fn |-> fn, prompt |-> prompt]

\* what a function call leaves behind: its return value, whether an exception
\* escaped it, the requests it sent and the elements it showed
Result(value, raised, sent, shown) ==
    [value |-> value, raised |-> raised, calls |-> sent, out |-> shown]

----------------------------------------------------------------------------
(* model.generate_content: the remote endpoint either raises or returns a   *)
(* response whose text may be empty                                         *)

Responses == {<<>>, <<"BULLET", "R">>}

Outcomes ==
    {[raises |-> TRUE, text |-> <<>>]}
        \cup {[raises |-> FALSE, text |-> t] : t \in Responses}

\* try: response = model.generate_content(prompt); return response.text
\* except Exception as e: st.error(...); return None
Generate(fn, prompt, failure, outcome) ==
    IF outcome.raises
    THEN Result(None, FALSE, <<Request(fn, prompt)>>, <<Element("error", failure)>>)
    ELSE Result(Some(outcome.text), FALSE, <<Request(fn, prompt)>>, <<>>)

\* the guard every generation function starts with
Unavailable(knowledge_base, mdl) == ~Truthy(knowledge_base) \/ mdl = "None"

Refuse == Result(None, FALSE, <<>>, <<Element("error", MSG_KB_OR_MODEL)>>)

----------------------------------------------------------------------------
(* draft_master_speech *)

\* variant: the role is compared without lower()
RoleInstructionsCaseSensitive(role) ==
    IF role = lit_1st_proposition THEN INSTR_1ST_PROP
    ELSE IF role = lit_2nd_opposition THEN INSTR_2ND_OPP
    ELSE IF role = lit_3rd_speaker THEN INSTR_3RD_SPEAKER
    ELSE <<>>

RoleInstructions(role) ==
    IF Lower(role) = lit_1st_proposition THEN INSTR_1ST_PROP
    ELSE IF Lower(role) = lit_2nd_opposition THEN INSTR_2ND_OPP
    ELSE IF Lower(role) = lit_3rd_speaker THEN INSTR_3RD_SPEAKER
    ELSE <<>>

SpeechPrompt(motion, sd, role, knowledge_base, role_instructions) ==
    <<"You are an expert WSDC Head Coach and speechwriter, using only the 'Synthesized Knowledge Briefing' provided.",
      "--- SYNTHESIZED KNOWLEDGE BRIEFING START ---">>
    \o FormatValue(knowledge_base)
    \o <<"--- SYNTHESIZED KNOWLEDGE BRIEFING END ---",
         "DEBATE DETAILS:",
         "- Motion: ", "QUOTE">>
    \o motion
    \o <<"QUOTE", "- My Team's Side: ">>
    \o sd
    \o <<"- My Speaker Role: ">>
    \o role
    \o <<"Your task is a two-part process:",
         "### PART 1: ESTABLISH THE CASE FOUNDATION",
         "- **Detailed Definition:**",
         "- **Detailed Team Line / Counter-Stance:**",
         "### PART 2: DRAFT THE SPEAKER-SPECIFIC SPEECH",
         "- **Follow Role Responsibilities:** Adhere strictly to the specific responsibilities for a ">>
    \o role
    \o <<". Be very crisp.",
         "- **Integrate the Foundation:**",
         "- **Use Evidence:**",
         "- **Structure Clearly:**",
         "SPECIFIC ROLE RESPONSIBILITIES:">>
    \o role_instructions
    \o <<"Now, generate the complete output, starting with Part 1.">>

\* variant: the guard tests the knowledge base only
draft_master_speech_no_model_check(motion, sd, role, knowledge_base, mdl, outcome) ==
    IF ~Truthy(knowledge_base) THEN Refuse
    ELSE Generate("draft_master_speech",
                  SpeechPrompt(motion, sd, role, knowledge_base, RoleInstructions(role)),
                  MSG_SPEECH_FAILED, outcome)

draft_master_speech(motion, sd, role, knowledge_base, mdl, outcome) ==
    IF Unavailable(knowledge_base, mdl) THEN Refuse
    ELSE Generate("draft_master_speech",
                  SpeechPrompt(motion, sd, role, knowledge_base, RoleInstructions(role)),
                  MSG_SPEECH_FAILED, outcome)

----------------------------------------------------------------------------
(* generate_wsdc_case_crisp *)

\* `persona` is a local that only the two recognised branches assign: None
\* here stands for the unbound local
Persona(sd) ==
    IF Lower(sd) = lit_proposition THEN Some(PERSONA_PROP)
    ELSE IF Lower(sd) = lit_opposition THEN Some(PERSONA_OPP)
    ELSE None

SideSpecificInstructions(sd) ==
    IF Lower(sd) = lit_proposition THEN INSTR_SIDE_PROP
    ELSE IF Lower(sd) = lit_opposition THEN INSTR_SIDE_OPP
    ELSE <<>>

CasePrompt(motion, sd, knowledge_base, persona, side_specific_instructions) ==
    persona
    \o <<" Your sole source of information is the 'Synthesized Knowledge Briefing' provided below.",
         "--- SYNTHESIZED KNOWLEDGE BRIEFING START ---">>
    \o FormatValue(knowledge_base)
    \o <<"--- SYNTHESIZED KNOWLEDGE BRIEFING END ---",
         "DEBATE DETAILS:",
         "- Motion: ", "QUOTE">>
    \o motion
    \o <<"QUOTE", "- My Team's Side: ">>
    \o sd
    \o side_specific_instructions
    \o <<"--- OUTPUT FORMATTING RULES (VERY IMPORTANT) ---",
         "- **Brevity is Key:** Use bullet points. Be Direct. Format as a Cheat Sheet.",
         "--- EXAMPLE OF THE DESIRED CRISP STYLE ---",
         "**Argument 2: The Argument from Economic Inevitability**",
         "--- END OF EXAMPLE ---",
         "Now, generate the full case outline following these strict formatting rules.",
         "CASE OUTLINE REQUIREMENTS:",
         "1.  **Definition (1-2 sentences max):**",
         "2.  **Team Line / Counter-Stance (1 sentence max)::**",
         "3.  **Arguments (Follow the crisp example style):** Develop three distinct arguments.">>

\* reading the unbound `persona` in the f-string raises UnboundLocalError
\* before the try block is entered
CaseBody(motion, sd, knowledge_base, outcome) ==
    IF Persona(sd) = None THEN Result(None, TRUE, <<>>, <<>>)
    ELSE Generate("generate_wsdc_case_crisp",
                  CasePrompt(motion, sd, knowledge_base, TextOf(Persona(sd)),
                             SideSpecificInstructions(sd)),
                  MSG_CASE_FAILED, outcome)

\* variant: the guard tests the model only
generate_wsdc_case_crisp_no_kb_check(motion, sd, knowledge_base, mdl, outcome) ==
    IF mdl = "None" THEN Refuse
    ELSE CaseBody(motion, sd, knowledge_base, outcome)

generate_wsdc_case_crisp(motion, sd, knowledge_base, mdl, outcome) ==
    IF Unavailable(knowledge_base, mdl) THEN Refuse
    ELSE CaseBody(motion, sd, knowledge_base, outcome)

----------------------------------------------------------------------------
(* generate_rebuttals *)

\* the template names the briefing but has no {knowledge_base} field
RebuttalPrompt(motion, opponent_arg) ==
    <<"You are a sharp and analytical WSDC debater, an expert in refutation. Your worldview is shaped by the 'Synthesized Knowledge Briefing' below.",
      "The debate motion is: ", "QUOTE">>
    \o motion
    \o <<"QUOTE",
         "An opponent has just made the following argument. Your job is to generate ",
         "3",
         " distinct lines of rebuttal against it. For each rebuttal point, clearly state your attack and use evidence from the briefing to support it.",
         "OPPONENT'S ARGUMENT:", "QUOTE">>
    \o opponent_arg
    \o <<"QUOTE">>

\* variant: a failed request is sent a second time
generate_rebuttals_retrying(motion, opponent_arg, knowledge_base, mdl, outcome) ==
    IF Unavailable(knowledge_base, mdl) THEN Refuse
    ELSE LET r == Generate("generate_rebuttals", RebuttalPrompt(motion, opponent_arg),
                           MSG_REBUTTALS_FAILED, outcome)
         IN  IF outcome.raises
             THEN Result(r.value, FALSE, r.calls \o r.calls, r.out)
             ELSE r

generate_rebuttals(motion, opponent_arg, knowledge_base, mdl, outcome) ==
    IF Unavailable(knowledge_base, mdl) THEN Refuse
    ELSE Generate("generate_rebuttals", RebuttalPrompt(motion, opponent_arg),
                  MSG_REBUTTALS_FAILED, outcome)

----------------------------------------------------------------------------
(* Script top: model configuration and the cached knowledge file *)

SecretStates == {"present", "missing", "invalid"}

Corpora == {<<>>, <<"K">>}

Files ==
    {[state |-> "absent", text |-> <<>>], [state |-> "unreadable", text |-> <<>>]}
        \cup {[state |-> "present", text |-> t] : t \in Corpora}

\* try: st.secrets[...]; genai.configure; GenerativeModel
\* except KeyError / except Exception: st.error; model = None
Configure(sec) ==
    IF sec = "present" THEN [model |-> "GenerativeModel", out |-> <<>>]
    ELSE IF sec = "missing"
    THEN [model |-> "None", out |-> <<Element("error", MSG_KEY_MISSING)>>]
    ELSE [model |-> "None", out |-> <<Element("error", MSG_CONFIGURE_FAILED)>>]

\* the body of load_knowledge_base: one open() of the file
load_knowledge_base(f) ==
    IF f.state = "present"
    THEN [value |-> Some(f.text), out |-> <<Element("success", MSG_KB_LOADED)>>]
    ELSE IF f.state = "absent"
    THEN [value |-> None, out |-> <<Element("error", MSG_KB_NOT_FOUND)>>]
    ELSE [value |-> None, out |-> <<Element("error", MSG_KB_LOAD_ERROR)>>]

EmptyCache == [hit |-> FALSE, value |-> None, out |-> <<>>]

Stored(r) == [hit |-> TRUE, value |-> r.value, out |-> r.out]

\* variant: a None outcome is not stored
CachedCallForgettingNone(c, f) ==
    IF c.hit
    THEN [value |-> c.value, out |-> c.out, cache |-> c, read |-> 0]
    ELSE LET r == load_knowledge_base(f)
         IN  [value |-> r.value, out |-> r.out,
              cache |-> IF r.value = None THEN EmptyCache ELSE Stored(r),
              read |-> 1]

\* @st.cache_data: the body runs on a miss only; its return value (None
\* included) and the elements it showed are stored and replayed on a hit
CachedCall(c, f) ==
    IF c.hit
    THEN [value |-> c.value, out |-> c.out, cache |-> c, read |-> 0]
    ELSE LET r == load_knowledge_base(f)
         IN  [value |-> r.value, out |-> r.out, cache |-> Stored(r), read |-> 1]

----------------------------------------------------------------------------
(* Button handlers: each yields the requests sent, the elements shown and   *)
(* whether an exception ended the script run                                *)

Handled(sent, shown, raised) == [calls |-> sent, out |-> shown, raised |-> raised]

\* if x: st.markdown(to_markdown(x)), preceded by the given elements
Rendered(value, before) ==
    IF Truthy(value)
    THEN before \o <<Element("markdown", to_markdown(TextOf(value)))>>
    ELSE <<>>

SpeechSubheader(role, sd) ==
    Element("subheader", <<"Master Speech Draft: ">> \o role \o <<" (">> \o sd \o <<")">>)

HandleMasterSpeech(motion, sd, role, knowledge_base, mdl, o1) ==
    IF Strip(motion) # <<>>
    THEN LET r == draft_master_speech(motion, sd, role, knowledge_base, mdl, o1)
         IN  Handled(r.calls,
                     r.out \o (IF r.raised THEN <<>>
                               ELSE Rendered(r.value, <<SpeechSubheader(role, sd)>>)),
                     r.raised)
    ELSE Handled(<<>>, <<Element("warning", MSG_ENTER_MOTION)>>, FALSE)

\* variant: the Opposition case is skipped when the Proposition case gave nothing
HandleCrispCasesStopOnFailure(motion, knowledge_base, mdl, o1, o2) ==
    IF Strip(motion) # <<>>
    THEN LET p == generate_wsdc_case_crisp(motion, SideProposition, knowledge_base, mdl, o1)
             o == generate_wsdc_case_crisp(motion, SideOpposition, knowledge_base, mdl, o2)
             first == <<Element("subheader", <<"Proposition Case">>)>> \o p.out
         IN  IF p.raised \/ ~Truthy(p.value)
             THEN Handled(p.calls, first, p.raised)
             ELSE Handled(p.calls \o o.calls,
                          first \o Rendered(p.value, <<>>)
                                \o <<Element("subheader", <<"Opposition Case">>)>>
                                \o o.out
                                \o (IF o.raised THEN <<>> ELSE Rendered(o.value, <<>>)),
                          o.raised)
    ELSE Handled(<<>>, <<Element("warning", MSG_ENTER_MOTION)>>, FALSE)

HandleCrispCases(motion, knowledge_base, mdl, o1, o2) ==
    IF Strip(motion) # <<>>
    THEN LET p == generate_wsdc_case_crisp(motion, SideProposition, knowledge_base, mdl, o1)
             o == generate_wsdc_case_crisp(motion, SideOpposition, knowledge_base, mdl, o2)
             first == <<Element("subheader", <<"Proposition Case">>)>> \o p.out
         IN  IF p.raised
             THEN Handled(p.calls, first, TRUE)
             ELSE Handled(p.calls \o o.calls,
                          first \o Rendered(p.value, <<>>)
                                \o <<Element("subheader", <<"Opposition Case">>)>>
                                \o o.out
                                \o (IF o.raised THEN <<>> ELSE Rendered(o.value, <<>>)),
                          o.raised)
    ELSE Handled(<<>>, <<Element("warning", MSG_ENTER_MOTION)>>, FALSE)

\* variant: only the motion is validated
HandleRebuttalsMotionOnly(motion, opponent_arg, knowledge_base, mdl, o1) ==
    IF Strip(motion) # <<>>
    THEN LET r == generate_rebuttals(motion, opponent_arg, knowledge_base, mdl, o1)
         IN  Handled(r.calls,
                     r.out \o (IF r.raised THEN <<>>
                               ELSE Rendered(r.value,
                                             <<Element("subheader", <<"Rebuttal Points">>)>>)),
                     r.raised)
    ELSE Handled(<<>>, <<Element("warning", MSG_ENTER_MOTION)>>, FALSE)

HandleRebuttals(motion, opponent_arg, knowledge_base, mdl, o1) ==
    IF Strip(motion) # <<>> /\ Strip(opponent_arg) # <<>>
    THEN LET r == generate_rebuttals(motion, opponent_arg, knowledge_base, mdl, o1)
         IN  Handled(r.calls,
                     r.out \o (IF r.raised THEN <<>>
                               ELSE Rendered(r.value,
                                             <<Element("subheader", <<"Rebuttal Points">>)>>)),
                     r.raised)
    ELSE IF Strip(motion) = <<>>
    THEN Handled(<<>>, <<Element("warning", MSG_ENTER_MOTION)>>, FALSE)
    ELSE Handled(<<>>, <<Element("warning", MSG_ENTER_ARGUMENT)>>, FALSE)

Separator == Element("markdown", <<"---">>)

Buttons == {"Generate Master Speech", "Generate Crisp Cases (Prop & Opp)",
            "Generate Rebuttals"}

\* lines 196-238: the gated block under "Generate Debate Content"
Page(clk, motion, sd, role, opponent_arg, knowledge_base, mdl, o1, o2) ==
    IF mdl # "None" /\ Truthy(knowledge_base)
    THEN IF clk = "Generate Master Speech"
         THEN LET h == HandleMasterSpeech(motion, sd, role, knowledge_base, mdl, o1)
              IN  Handled(h.calls,
                          h.out \o (IF h.raised THEN <<>> ELSE <<Separator, Separator>>),
                          h.raised)
         ELSE IF clk = "Generate Crisp Cases (Prop & Opp)"
         THEN LET h == HandleCrispCases(motion, knowledge_base, mdl, o1, o2)
              IN  Handled(h.calls,
                          <<Separator>> \o h.out
                              \o (IF h.raised THEN <<>> ELSE <<Separator>>),
                          h.raised)
         ELSE IF clk = "Generate Rebuttals"
         THEN LET h == HandleRebuttals(motion, opponent_arg, knowledge_base, mdl, o1)
              IN  Handled(h.calls, <<Separator, Separator>> \o h.out, h.raised)
         ELSE Handled(<<>>, <<Separator, Separator>>, FALSE)
    ELSE IF mdl = "None"
    THEN Handled(<<>>, <<Element("error", MSG_API_NOT_CONFIGURED)>>, FALSE)
    ELSE Handled(<<>>, <<Element("error", MSG_KB_NOT_LOADED)>>, FALSE)

----------------------------------------------------------------------------
(* Widgets and their defaults *)

DefaultMotion == <<"This House regrets the commercialization of space exploration.">>

DefaultArgument == <<"Profit motive helps optimise efficient deployment of limited resource in space exploration.">>

Motions == StringsOver({" ", "M"}) \cup {DefaultMotion}

Arguments == {<<>>, <<" ">>, <<"A">>, DefaultArgument}

NoArgs == [motion |-> <<>>, side |-> <<>>, speaker_role |-> <<>>,
           opponent_arg |-> <<>>, knowledge_base |-> None, model |-> "None"]

NoReturn == [value |-> None, raised |-> FALSE]

Init ==
    /\ cache = EmptyCache
    /\ loads = 0
    /\ reads = 0
    /\ model = "None"
    /\ distilled_knowledge = None
    /\ CURRENT_MOTION = DefaultMotion
    /\ side = SideProposition
    /\ speaker_role = Role1stProposition
    /\ opponent_argument = DefaultArgument
    /\ clicked = "none"
    /\ last = "init"
    /\ args = NoArgs
    /\ ret = NoReturn
    /\ calls = <<>>
    /\ output = <<>>

----------------------------------------------------------------------------
(* One run of the script, top to bottom, with the given widget values.      *)
(* st.secrets is consulted on every run; the file is opened only when the   *)
(* body of load_knowledge_base runs, and what open() finds is drawn then.   *)

NotOpened == [state |-> "not opened", text |-> <<>>]

Openable(c) == IF c.hit THEN {NotOpened} ELSE Files

RunWith(clk, motion, sd, role, opponent_arg, o1, o2, cfg, kb) ==
    \E page \in {Page(clk, motion, sd, role, opponent_arg, kb.value, cfg.model, o1, o2)} :
        /\ loads < MaxLoads
        /\ model' = cfg.model
        /\ cache' = kb.cache
        /\ loads' = loads + 1
        /\ reads' = reads + kb.read
        /\ distilled_knowledge' = kb.value
        /\ CURRENT_MOTION' = motion
        /\ side' = sd
        /\ speaker_role' = role
        /\ opponent_argument' = opponent_arg
        /\ clicked' = clk
        /\ last' = "script"
        /\ args' = NoArgs
        /\ ret' = NoReturn
        /\ calls' = page.calls
        /\ output' = <<Element("title", <<"WSDC Debate Assistant">>)>>
                        \o cfg.out \o kb.out
                        \o <<Element("header", <<"Debate Configuration">>),
                             Element("header", <<"Generate Debate Content">>)>>
                        \o page.out
                        \o (IF page.raised
                            THEN <<Element("exception", <<"UnboundLocalError">>)>>
                            ELSE <<>>)

RunScript(clk, motion, sd, role, opponent_arg, o1, o2) ==
    \E sec \in SecretStates, f \in Openable(cache) :
        RunWith(clk, motion, sd, role, opponent_arg, o1, o2,
                Configure(sec), CachedCall(cache, f))

AnyOutcome == CHOOSE o \in Outcomes : TRUE

\* the last run drew the widgets, and the buttons when the gate let it
WidgetsShown == last = "script"

ButtonsShown == last = "script" /\ model # "None" /\ Truthy(distilled_knowledge)

\* a new browser session: widgets at their defaults
OpenPage ==
    \E o \in {AnyOutcome} :
    RunScript("none", DefaultMotion, SideProposition, Role1stProposition,
              DefaultArgument, o, o)

EditMotion ==
    /\ WidgetsShown
    /\ \E m \in Motions \ {CURRENT_MOTION} :
           RunScript("none", m, side, speaker_role, opponent_argument,
                     AnyOutcome, AnyOutcome)

SelectSide ==
    /\ WidgetsShown
    /\ \E sd \in SideOptions \ {side} :
           RunScript("none", CURRENT_MOTION, sd, speaker_role, opponent_argument,
                     AnyOutcome, AnyOutcome)

SelectSpeakerRole ==
    /\ WidgetsShown
    /\ \E role \in RoleOptions \ {speaker_role} :
           RunScript("none", CURRENT_MOTION, side, role, opponent_argument,
                     AnyOutcome, AnyOutcome)

EditOpponentArgument ==
    /\ WidgetsShown
    /\ \E a \in Arguments \ {opponent_argument} :
           RunScript("none", CURRENT_MOTION, side, speaker_role, a,
                     AnyOutcome, AnyOutcome)

ClickMasterSpeech ==
    /\ ButtonsShown
    /\ \E o1 \in Outcomes :
           RunScript("Generate Master Speech", CURRENT_MOTION, side, speaker_role,
                     opponent_argument, o1, AnyOutcome)

ClickCrispCases ==
    /\ ButtonsShown
    /\ \E o1, o2 \in Outcomes :
           RunScript("Generate Crisp Cases (Prop & Opp)", CURRENT_MOTION, side,
                     speaker_role, opponent_argument, o1, o2)

ClickRebuttals ==
    /\ ButtonsShown
    /\ \E o1 \in Outcomes :
           RunScript("Generate Rebuttals", CURRENT_MOTION, side, speaker_role,
                     opponent_argument, o1, AnyOutcome)

\* the cache is emptied (the app menu's "Clear cache", or a restart of the
\* server process): a new cache lifetime starts
ClearCache ==
    /\ cache.hit
    /\ cache' = EmptyCache
    /\ loads' = 0
    /\ reads' = 0
    /\ UNCHANGED <<model, distilled_knowledge, CURRENT_MOTION, side, speaker_role,
                   opponent_argument, clicked, last, args, ret, calls, output>>

Next ==
    \/ OpenPage
    \/ EditMotion
    \/ SelectSide
    \/ SelectSpeakerRole
    \/ EditOpponentArgument
    \/ ClickMasterSpeech
    \/ ClickCrispCases
    \/ ClickRebuttals
    \/ ClearCache

Spec == Init /\ [][Next]_vars

----------------------------------------------------------------------------
(* The three generation functions called directly, as a unit test calls     *)
(* them, with arguments the widgets cannot produce. They keep no state, so  *)
(* each call is made on the freshly constructed state.                      *)

FnSides ==
    SideOptions
        \cup {<<"P", "R", "O", "P", "O", "S", "I", "T", "I", "O", "N">>,
              lit_opposition,
              <<"N", "e", "u", "t", "r", "a", "l">>,
              <<>>}

FnRoles ==
    RoleOptions
        \cup {<<"1", "S", "T", " ", "P", "R", "O", "P", "O", "S", "I", "T", "I", "O", "N">>,
              lit_2nd_opposition,
              <<"3", "r", "d", " ", "s", "P", "E", "A", "K", "E", "R">>,
              <<"R", "e", "p", "l", "y">>,
              <<>>}

FnKnowledge == {None} \cup {Some(t) : t \in Corpora}

FnModels == {"None", "GenerativeModel"}

Called(fn, a, r) ==
    /\ last' = fn
    /\ args' = a
    /\ ret' = [value |-> r.value, raised |-> r.raised]
    /\ calls' = r.calls
    /\ output' = r.out
    /\ UNCHANGED <<cache, loads, reads, model, distilled_knowledge, CURRENT_MOTION,
                   side, speaker_role, opponent_argument, clicked>>

CallDraftMasterSpeech ==
    /\ last = "init"
    /\ \E m \in Motions, sd \in FnSides, role \in FnRoles, kb \in FnKnowledge,
          mdl \in FnModels, o \in Outcomes :
           Called("draft_master_speech",
                  [NoArgs EXCEPT !.motion = m, !.side = sd, !.speaker_role = role,
                                 !.knowledge_base = kb, !.model = mdl],
                  draft_master_speech(m, sd, role, kb, mdl, o))

CallGenerateCase ==
    /\ last = "init"
    /\ \E m \in Motions, sd \in FnSides, kb \in FnKnowledge, mdl \in FnModels,
          o \in Outcomes :
           Called("generate_wsdc_case_crisp",
                  [NoArgs EXCEPT !.motion = m, !.side = sd, !.knowledge_base = kb,
                                 !.model = mdl],
                  generate_wsdc_case_crisp(m, sd, kb, mdl, o))

CallGenerateRebuttals ==
    /\ last = "init"
    /\ \E m \in Motions, a \in Arguments, kb \in FnKnowledge, mdl \in FnModels,
          o \in Outcomes :
           Called("generate_rebuttals",
                  [NoArgs EXCEPT !.motion = m, !.opponent_arg = a,
                                 !.knowledge_base = kb, !.model = mdl],
                  generate_rebuttals(m, a, kb, mdl, o))

FnNext ==
    \/ CallDraftMasterSpeech
    \/ CallGenerateCase
    \/ CallGenerateRebuttals

FnSpec == Init /\ [][FnNext]_vars

AllNext ==
    \/ OpenPage
    \/ EditMotion
    \/ SelectSide
    \/ SelectSpeakerRole
    \/ EditOpponentArgument
    \/ ClickMasterSpeech
    \/ ClickCrispCases
    \/ ClickRebuttals
    \/ ClearCache
    \/ CallDraftMasterSpeech
    \/ CallGenerateCase
    \/ CallGenerateRebuttals

AllSpec == Init /\ [][AllNext]_vars

----------------------------------------------------------------------------
(* Vocabulary of the properties *)

\* s in t
Contains(t, s) ==
    \E i \in 0..(Len(t) - Len(s)) : \A j \in 1..Len(s) : t[i + j] = s[j]

\* t.count(s) for a one-token s
Count(t, tok) == Cardinality({i \in 1..Len(t) : t[i] = tok})

\* the last run showed this element
Shown(kind, body) == \E i \in 1..Len(output) : output[i] = Element(kind, body)

\* empty or whitespace only, read off the characters
Blank(s) == \A i \in 1..Len(s) : s[i] = " "

\* the last script run got past `if model and distilled_knowledge`
GateOpen == model # "None" /\ Truthy(distilled_knowledge)

ScriptRan == last = "script"

Pressed(button) == ScriptRan /\ clicked = button

Functions == {"draft_master_speech", "generate_wsdc_case_crisp", "generate_rebuttals"}

DirectCall == last \in Functions

\* equal up to the case of ASCII letters, read off the two alphabets
SameIgnoringCase(a, b) ==
    /\ Len(a) = Len(b)
    /\ \A i \in 1..Len(a) :
           \/ a[i] = b[i]
           \/ \E k \in 1..Len(UpperCase) :
                  {a[i], b[i]} = {UpperCase[k], LowerCase[k]}

----------------------------------------------------------------------------
\* C1: a button press with an empty or whitespace-only motion sends no
\* generation request, and the handler it reaches shows the "Please enter a
\* debate motion." warning; so no script run ever sends a request for a
\* blank motion.
C1_EmptyMotionRejected ==
    /\ (ScriptRan /\ calls # <<>>) => ~Blank(CURRENT_MOTION)
    /\ \A b \in Buttons :
           (Pressed(b) /\ Blank(CURRENT_MOTION))
               => /\ calls = <<>>
                  /\ GateOpen => Shown("warning", MSG_ENTER_MOTION)

C1_Witness ==
    /\ Pressed("Generate Crisp Cases (Prop & Opp)")
    /\ CURRENT_MOTION = <<" ">>
    /\ GateOpen
    /\ Shown("warning", MSG_ENTER_MOTION)
    /\ calls = <<>>

\* C2: a press of Generate Rebuttals with an empty or whitespace-only
\* opponent argument sends no request whatever the motion is; with a
\* non-blank motion the warning shown is the opponent-argument one and not
\* the motion one.
C2_EmptyArgumentRejected ==
    (Pressed("Generate Rebuttals") /\ Blank(opponent_argument))
        => /\ calls = <<>>
           /\ GateOpen =>
                  IF Blank(CURRENT_MOTION)
                  THEN Shown("warning", MSG_ENTER_MOTION)
                  ELSE /\ Shown("warning", MSG_ENTER_ARGUMENT)
                       /\ ~Shown("warning", MSG_ENTER_MOTION)

C2_Witness ==
    /\ Pressed("Generate Rebuttals")
    /\ opponent_argument = <<" ">>
    /\ ~Blank(CURRENT_MOTION)
    /\ GateOpen
    /\ Shown("warning", MSG_ENTER_ARGUMENT)
    /\ calls = <<>>

\* C3: with the model handle None, a script run sends no request and shows
\* the "Gemini API not configured" error whether or not the knowledge base
\* loaded, and a direct call of any generation function sends no request,
\* shows the not-initialized error and returns None.
C3_UnconfiguredNeverCalls ==
    /\ (ScriptRan /\ model = "None")
           => /\ calls = <<>>
              /\ Shown("error", MSG_API_NOT_CONFIGURED)
    /\ (DirectCall /\ args.model = "None")
           => /\ calls = <<>>
              /\ ret = NoReturn
              /\ output = <<Element("error", MSG_KB_OR_MODEL)>>

C3_Witness ==
    /\ last = "draft_master_speech"
    /\ args.model = "None"
    /\ Truthy(args.knowledge_base)
    /\ ~Blank(args.motion)
    /\ calls = <<>>
    /\ output = <<Element("error", MSG_KB_OR_MODEL)>>

\* C4: with the knowledge base None, a script run sends no request and shows
\* an error instead of the handlers, and a direct call of any generation
\* function returns None before building a prompt, sending nothing.
C4_NoCorpusNeverCalls ==
    /\ (ScriptRan /\ distilled_knowledge = None)
           => /\ calls = <<>>
              /\ \/ Shown("error", MSG_API_NOT_CONFIGURED)
                 \/ Shown("error", MSG_KB_NOT_LOADED)
              /\ ~Shown("markdown", <<"---">>)
    /\ (DirectCall /\ args.knowledge_base = None)
           => /\ calls = <<>>
              /\ ret = NoReturn
              /\ output = <<Element("error", MSG_KB_OR_MODEL)>>

C4_Witness ==
    /\ last = "generate_wsdc_case_crisp"
    /\ args.knowledge_base = None
    /\ args.model = "GenerativeModel"
    /\ ~Blank(args.motion)
    /\ calls = <<>>
    /\ ret = NoReturn

PropositionSubheader == Element("subheader", <<"Proposition Case">>)

OppositionSubheader == Element("subheader", <<"Opposition Case">>)

CaseFailed == Element("error", MSG_CASE_FAILED)

\* the element a finished case request leaves under its subheader: the
\* error of a failed request or the markdown of a non-empty text
ResultShown(i) ==
    \/ output[i] = CaseFailed
    \/ output[i].kind = "markdown" /\ output[i] # Separator

\* C5: a press of Generate Crisp Cases with a non-blank motion sends exactly
\* two requests, the Proposition prompt first and the Opposition prompt
\* second, whatever either request does, and shows each case's own result
\* under its subheader, Proposition above Opposition.
C5_BothCasesInOrder ==
    (Pressed("Generate Crisp Cases (Prop & Opp)") /\ GateOpen /\ ~Blank(CURRENT_MOTION))
        => /\ Len(calls) = 2
           /\ \A i \in 1..2 : calls[i].fn = "generate_wsdc_case_crisp"
           /\ Contains(calls[1].prompt, PERSONA_PROP)
           /\ Contains(calls[1].prompt, <<"- My Team's Side: ">> \o SideProposition)
           /\ ~Contains(calls[1].prompt, PERSONA_OPP)
           /\ Contains(calls[2].prompt, PERSONA_OPP)
           /\ Contains(calls[2].prompt, <<"- My Team's Side: ">> \o SideOpposition)
           /\ ~Contains(calls[2].prompt, PERSONA_PROP)
           /\ \E i, j \in 1..Len(output) :
                  /\ i < j
                  /\ output[i] = PropositionSubheader
                  /\ output[j] = OppositionSubheader
                  /\ j = i + 1 \/ (j = i + 2 /\ ResultShown(i + 1))
                  /\ \/ output[j + 1] = Separator
                     \/ ResultShown(j + 1) /\ output[j + 2] = Separator

C5_Witness ==
    /\ Pressed("Generate Crisp Cases (Prop & Opp)")
    /\ ~Blank(CURRENT_MOTION)
    /\ Len(calls) = 2
    /\ \E i \in 1..Len(output) :
           /\ output[i] = PropositionSubheader
           /\ output[i + 1].kind = "markdown"
           /\ output[i + 2] = OppositionSubheader
           /\ output[i + 3] = CaseFailed

\* C6: within one cache lifetime the file is opened at most once however
\* many times load_knowledge_base is called: once the cache holds an outcome,
\* corpus text or None, every later call returns that outcome and opens
\* nothing.
C6_ReadAtMostOnce ==
    /\ [](/\ reads <= 1
          /\ loads >= 1 => (reads = 1 /\ cache.hit)
          /\ cache.hit => distilled_knowledge = cache.value)
    /\ [][(cache.hit /\ cache'.hit) => (cache' = cache /\ reads' = reads)]_vars

C6_Witness ==
    /\ ScriptRan
    /\ loads = 2
    /\ reads = 1
    /\ cache.hit
    /\ cache.value = None
    /\ distilled_knowledge = None

FailureOf(fn) ==
    IF fn = "draft_master_speech" THEN MSG_SPEECH_FAILED
    ELSE IF fn = "generate_wsdc_case_crisp" THEN MSG_CASE_FAILED
    ELSE MSG_REBUTTALS_FAILED

RequestFailed == \E fn \in Functions : Shown("error", FailureOf(fn))

\* C7: a generation function that gets past its guard and builds its prompt
\* sends exactly one request; when the request fails it is not sent again,
\* the function shows its error and returns None. A script run sends at most
\* one request, two for Generate Crisp Cases, none without a button press,
\* and after a failed request the page still offers its buttons.
C7_OneRequestNoRetry ==
    /\ (DirectCall /\ ~Unavailable(args.knowledge_base, args.model) /\ ~ret.raised)
           => /\ Len(calls) = 1
              /\ calls[1].fn = last
              /\ IF ret.value = None
                 THEN output = <<Element("error", FailureOf(last))>>
                 ELSE output = <<>>
    /\ ScriptRan
           => /\ Len(calls) <= (IF clicked = "Generate Crisp Cases (Prop & Opp)" THEN 2
                                ELSE IF clicked \in Buttons THEN 1 ELSE 0)
              /\ RequestFailed
                     => /\ ButtonsShown
                        /\ ~Shown("exception", <<"UnboundLocalError">>)
                        /\ loads < MaxLoads => ENABLED ClickRebuttals

C7_Witness ==
    /\ Pressed("Generate Master Speech")
    /\ Shown("error", MSG_SPEECH_FAILED)
    /\ Len(calls) = 1
    /\ ButtonsShown

\* C8: the prompt generate_rebuttals sends embeds the corpus text, the
\* motion and the opponent's argument verbatim and asks for 3 lines of
\* rebuttal.
C8_RebuttalPromptEmbedsAll ==
    (/\ last = "generate_rebuttals"
     /\ ~Blank(args.motion)
     /\ ~Blank(args.opponent_arg)
     /\ ~Unavailable(args.knowledge_base, args.model))
        => /\ Len(calls) = 1
           /\ Contains(calls[1].prompt, TextOf(args.knowledge_base))
           /\ Contains(calls[1].prompt, <<"QUOTE">> \o args.motion \o <<"QUOTE">>)
           /\ Contains(calls[1].prompt, <<"QUOTE">> \o args.opponent_arg \o <<"QUOTE">>)
           /\ Contains(calls[1].prompt,
                       <<"3", " distinct lines of rebuttal against it. For each rebuttal point, clearly state your attack and use evidence from the briefing to support it.">>)
           /\ Count(calls[1].prompt, "3") = 1

Recognized(role) ==
    \E r \in RoleOptions : SameIgnoringCase(role, r)

InstructionsFor(r) ==
    IF r = Role1stProposition THEN INSTR_1ST_PROP
    ELSE IF r = Role2ndOpposition THEN INSTR_2ND_OPP
    ELSE INSTR_3RD_SPEAKER

\* C9: draft_master_speech matches the role against the three recognised
\* roles without regard to case; the prompt it sends holds that role's
\* instruction text and neither of the other two, and for any other role
\* string it holds none of the three and is sent all the same.
C9_RoleInstructions ==
    /\ (last = "draft_master_speech" /\ ~Unavailable(args.knowledge_base, args.model))
           => /\ ~ret.raised
              /\ Len(calls) = 1
    /\ (last = "draft_master_speech" /\ calls # <<>>)
           => \A r \in RoleOptions :
                  Contains(calls[1].prompt,
                           <<"SPECIFIC ROLE RESPONSIBILITIES:">> \o InstructionsFor(r))
                      <=> SameIgnoringCase(args.speaker_role, r)
    /\ (last = "draft_master_speech" /\ calls # <<>> /\ ~Recognized(args.speaker_role))
           => Contains(calls[1].prompt,
                       <<"SPECIFIC ROLE RESPONSIBILITIES:",
                         "Now, generate the complete output, starting with Part 1.">>)

C9_Witness ==
    /\ last = "draft_master_speech"
    /\ args.speaker_role # Role1stProposition
    /\ SameIgnoringCase(args.speaker_role, Role1stProposition)
    /\ Len(calls) = 1
    /\ Contains(calls[1].prompt, INSTR_1ST_PROP)
    /\ ~Contains(calls[1].prompt, INSTR_2ND_OPP)
    /\ ~Contains(calls[1].prompt, INSTR_3RD_SPEAKER)

\* C10: generate_wsdc_case_crisp matches the side against Proposition and
\* Opposition without regard to case and puts that side's persona and
\* instructions in the prompt; for any other side, with corpus and model
\* present, it still builds a prompt, with neither persona, sends it and
\* returns, raising nothing.
C10_UnrecognizedSideCompletes ==
    (last = "generate_wsdc_case_crisp" /\ ~Unavailable(args.knowledge_base, args.model))
        => /\ ~ret.raised
           /\ Len(calls) = 1
           /\ Contains(calls[1].prompt, PERSONA_PROP \o <<" Your sole source of information is the 'Synthesized Knowledge Briefing' provided below.">>)
                  <=> SameIgnoringCase(args.side, SideProposition)
           /\ Contains(calls[1].prompt, args.side \o INSTR_SIDE_PROP)
                  <=> SameIgnoringCase(args.side, SideProposition)
           /\ Contains(calls[1].prompt, PERSONA_OPP \o <<" Your sole source of information is the 'Synthesized Knowledge Briefing' provided below.">>)
                  <=> SameIgnoringCase(args.side, SideOpposition)
           /\ Contains(calls[1].prompt, args.side \o INSTR_SIDE_OPP)
                  <=> SameIgnoringCase(args.side, SideOpposition)

====
